---------------------------- MODULE Spec2Model ----------------------------
(***************************************************************************)
(* Model of the go-misc command-line tools:                                *)
(*   - github-close-pr, GraphQL variant (src/unnamed/part_000)             *)
(*   - github-close-pr, REST variant    (src/github-close-pr/main.go)      *)
(*   - github-list-pr                   (src/github-list-pr/main.go)       *)
(*                                                                         *)
(* One behaviour is one invocation scenario.  With tool = "close" the two  *)
(* close-pr variants are run side by side, each against its own copy of    *)
(* the same remote world (same pull request, same command line, same       *)
(* pattern of failing remote calls), so that their traces can be compared. *)
(* With tool = "list" the search listing runs against a remote search      *)
(* result that is split into pages.                                        *)
(*                                                                         *)
(* Each main() is cut into steps at its remote calls; the program counter  *)
(* of a variant names the source block that runs next.  log.Fatalf is      *)
(* "log, then exit with status 1"; returning from main is exit status 0.   *)
(***************************************************************************)
EXTENDS Naturals, Sequences, FiniteSets, TLC

\* ------------------------------------------------------------- bounds
\* Largest number of pages the remote search result is split into.
MaxPages == 2
\* Largest number of nodes in one page.
MaxPageLen == 2

\* ------------------------------------------------------------- state
VARIABLES
    tool,          \* which command is invoked: "close" or "list"
    \* command line and remote world of the close workflow
    closeComment,  \* -close-comment
    deleteBranch,  \* -delete-branch
    strict,        \* -strict (GraphQL variant only)
    server,        \* the pull request as the remote holds it
    fails,         \* the remote operations that fail when they are called
    \* GraphQL variant
    gPc, gPr, gCalls, gEffects, gLog, gExit,
    \* REST variant
    rPc, rPr, rCalls, rEffects, rLog, rExit,
    \* search listing
    pages,         \* the remote search result, page by page
    lPc,
    resultCursor,  \* variables["resultCursor"]; 0 is the nil cursor
    q,             \* the response struct the query decodes into
    result,        \* var result []PullRequest
    lQueries,      \* history: the cursor each issued query carried, and whether it succeeded
    lFetched,      \* history: the pages successfully received
    output,        \* what was written to standard output
    lExit

inputs == <<tool, closeComment, deleteBranch, strict, server, fails, pages>>
gvars  == <<gPc, gPr, gCalls, gEffects, gLog, gExit>>
rvars  == <<rPc, rPr, rCalls, rEffects, rLog, rExit>>
lvars  == <<lPc, resultCursor, q, result, lQueries, lFetched, output, lExit>>
vars   == <<inputs, gvars, rvars, lvars>>

Ops == {"lookup", "comment", "close", "delete"}
Mutating == {"comment", "close", "delete"}

\* ------------------------------------------------ close-pr, GraphQL variant

\* The PullRequest struct before the lookup fills it.
NoPR == [State |-> "", HeadRepository |-> "", BaseRepository |-> ""]

\* getPRIDByNumber: the snapshot the GraphQL API returns for the remote PR.
\* PullRequestState is the enum OPEN / CLOSED / MERGED.
getPRIDByNumber(s) ==
    [State |-> CASE s.state = "open"   -> "OPEN"
                 [] s.state = "closed" -> "CLOSED"
                 [] OTHER              -> "MERGED",
     HeadRepository |-> s.headRepo,
     BaseRepository |-> s.baseRepo]

GqlIsOpen_NotClosed(pr) == pr.State # "CLOSED"
\* pr.State != "OPEN", negated
GqlIsOpen(pr) == pr.State = "OPEN"

GqlSameRepository_Always(pr) == TRUE
\* pr.HeadRepository.ID != pr.BaseRepository.ID, negated
GqlSameRepository(pr) == pr.HeadRepository = pr.BaseRepository

\* main, lookup and state check
GqlLookup ==
    /\ tool = "close"
    /\ gPc = "lookup"
    /\ gCalls' = Append(gCalls, "lookup")
    /\ IF "lookup" \in fails
         THEN /\ gLog' = Append(gLog, "ERROR get")
              /\ gPc' = "exited" /\ gExit' = 1
              /\ UNCHANGED gPr
         ELSE /\ gPr' = getPRIDByNumber(server)
              /\ IF ~GqlIsOpen(gPr')
                   THEN IF strict
                          THEN /\ gLog' = Append(gLog, "ERROR not open")
                               /\ gPc' = "exited" /\ gExit' = 1
                          ELSE /\ gLog' = Append(gLog, "WARN not open")
                               /\ gPc' = "exited" /\ gExit' = 0
                   ELSE /\ gPc' = "comment"
                        /\ UNCHANGED <<gLog, gExit>>
    /\ UNCHANGED <<gEffects, inputs, rvars, lvars>>

GqlComment_NoAbort ==
    /\ tool = "close"
    /\ gPc = "comment"
    /\ IF closeComment # ""
         THEN /\ gCalls' = Append(gCalls, "comment")
              /\ IF "comment" \in fails
                   THEN /\ gLog' = Append(gLog, "ERROR comment")
                        /\ gPc' = "close"
                        /\ UNCHANGED <<gEffects, gExit>>
                   ELSE /\ gEffects' = gEffects \cup {"commented"}
                        /\ gPc' = "close"
                        /\ UNCHANGED <<gLog, gExit>>
         ELSE /\ gPc' = "close"
              /\ UNCHANGED <<gCalls, gEffects, gLog, gExit>>
    /\ UNCHANGED <<gPr, inputs, rvars, lvars>>
\* main, close comment
GqlComment ==
    /\ tool = "close"
    /\ gPc = "comment"
    /\ IF closeComment # ""
         THEN /\ gCalls' = Append(gCalls, "comment")
              /\ IF "comment" \in fails
                   THEN /\ gLog' = Append(gLog, "ERROR comment")
                        /\ gPc' = "exited" /\ gExit' = 1
                        /\ UNCHANGED gEffects
                   ELSE /\ gEffects' = gEffects \cup {"commented"}
                        /\ gPc' = "close"
                        /\ UNCHANGED <<gLog, gExit>>
         ELSE /\ gPc' = "close"
              /\ UNCHANGED <<gCalls, gEffects, gLog, gExit>>
    /\ UNCHANGED <<gPr, inputs, rvars, lvars>>

\* main, close mutation
GqlClose ==
    /\ tool = "close"
    /\ gPc = "close"
    /\ gCalls' = Append(gCalls, "close")
    /\ IF "close" \in fails
         THEN /\ gLog' = Append(gLog, "ERROR close")
              /\ gPc' = "exited" /\ gExit' = 1
              /\ UNCHANGED gEffects
         ELSE /\ gEffects' = gEffects \cup {"closed"}
              /\ gLog' = Append(gLog, "INFO closed")
              /\ gPc' = "delete"
              /\ UNCHANGED gExit
    /\ UNCHANGED <<gPr, inputs, rvars, lvars>>

GqlDelete_Rollback ==
    /\ tool = "close"
    /\ gPc = "delete"
    /\ IF ~deleteBranch
         THEN /\ gPc' = "exited" /\ gExit' = 0
              /\ UNCHANGED <<gCalls, gEffects, gLog>>
         ELSE IF ~GqlSameRepository(gPr)
                THEN /\ gLog' = Append(gLog, "WARN different repository")
                     /\ gPc' = "exited" /\ gExit' = 0
                     /\ UNCHANGED <<gCalls, gEffects>>
                ELSE /\ gCalls' = Append(gCalls, "delete")
                     /\ IF "delete" \in fails
                          THEN /\ gLog' = Append(gLog, "ERROR delete")
                               /\ gPc' = "exited" /\ gExit' = 1
                               /\ gEffects' = gEffects \ {"closed"}
                          ELSE /\ gEffects' = gEffects \cup {"refDeleted"}
                               /\ gLog' = Append(gLog, "INFO deleted")
                               /\ gPc' = "exited" /\ gExit' = 0
    /\ UNCHANGED <<gPr, inputs, rvars, lvars>>
\* main, branch deletion
GqlDelete ==
    /\ tool = "close"
    /\ gPc = "delete"
    /\ IF ~deleteBranch
         THEN /\ gPc' = "exited" /\ gExit' = 0
              /\ UNCHANGED <<gCalls, gEffects, gLog>>
         ELSE IF ~GqlSameRepository(gPr)
                THEN /\ gLog' = Append(gLog, "WARN different repository")
                     /\ gPc' = "exited" /\ gExit' = 0
                     /\ UNCHANGED <<gCalls, gEffects>>
                ELSE /\ gCalls' = Append(gCalls, "delete")
                     /\ IF "delete" \in fails
                          THEN /\ gLog' = Append(gLog, "ERROR delete")
                               /\ gPc' = "exited" /\ gExit' = 1
                               /\ UNCHANGED gEffects
                          ELSE /\ gEffects' = gEffects \cup {"refDeleted"}
                               /\ gLog' = Append(gLog, "INFO deleted")
                               /\ gPc' = "exited" /\ gExit' = 0
    /\ UNCHANGED <<gPr, inputs, rvars, lvars>>

\* --------------------------------------------------- close-pr, REST variant

\* client.PullRequests.Get: the REST API reports a merged pull request with
\* state "closed" (and merged = true); there is no "merged" state.
PullRequestsGet(s) ==
    [State |-> IF s.state = "open" THEN "open" ELSE "closed",
     HeadRepository |-> s.headRepo,
     BaseRepository |-> s.baseRepo]

RestIsOpen_Unchecked(pr) == TRUE
\* pr.GetState() != "open", negated
RestIsOpen(pr) == pr.State = "open"

RestSameRepository_HeadHead(pr) == pr.HeadRepository = pr.HeadRepository
\* prBranchHead.GetRepo().GetID() != prBranchBase.GetRepo().GetID(), negated
RestSameRepository(pr) == pr.HeadRepository = pr.BaseRepository

\* main, lookup and state check
RestLookup ==
    /\ tool = "close"
    /\ rPc = "lookup"
    /\ rCalls' = Append(rCalls, "lookup")
    /\ IF "lookup" \in fails
         THEN /\ rLog' = Append(rLog, "ERROR get")
              /\ rPc' = "exited" /\ rExit' = 1
              /\ UNCHANGED rPr
         ELSE /\ rPr' = PullRequestsGet(server)
              /\ IF ~RestIsOpen(rPr')
                   THEN /\ rLog' = Append(rLog, "ERROR not open")
                        /\ rPc' = "exited" /\ rExit' = 1
                   ELSE /\ rPc' = "comment"
                        /\ UNCHANGED <<rLog, rExit>>
    /\ UNCHANGED <<rEffects, inputs, gvars, lvars>>

\* main, close comment
RestComment ==
    /\ tool = "close"
    /\ rPc = "comment"
    /\ IF closeComment # ""
         THEN /\ rCalls' = Append(rCalls, "comment")
              /\ IF "comment" \in fails
                   THEN /\ rLog' = Append(rLog, "ERROR comment")
                        /\ rPc' = "exited" /\ rExit' = 1
                        /\ UNCHANGED rEffects
                   ELSE /\ rEffects' = rEffects \cup {"commented"}
                        /\ rPc' = "close"
                        /\ UNCHANGED <<rLog, rExit>>
         ELSE /\ rPc' = "close"
              /\ UNCHANGED <<rCalls, rEffects, rLog, rExit>>
    /\ UNCHANGED <<rPr, inputs, gvars, lvars>>

\* main, close by editing the state
RestClose ==
    /\ tool = "close"
    /\ rPc = "close"
    /\ rCalls' = Append(rCalls, "close")
    /\ rPr' = [rPr EXCEPT !.State = "closed"]
    /\ IF "close" \in fails
         THEN /\ rLog' = Append(rLog, "ERROR close")
              /\ rPc' = "exited" /\ rExit' = 1
              /\ UNCHANGED rEffects
         ELSE /\ rEffects' = rEffects \cup {"closed"}
              /\ rLog' = Append(rLog, "INFO closed")
              /\ rPc' = "delete"
              /\ UNCHANGED rExit
    /\ UNCHANGED <<inputs, gvars, lvars>>

\* main, branch deletion
RestDelete ==
    /\ tool = "close"
    /\ rPc = "delete"
    /\ IF ~deleteBranch
         THEN /\ rPc' = "exited" /\ rExit' = 0
              /\ UNCHANGED <<rCalls, rEffects, rLog>>
         ELSE IF ~RestSameRepository(rPr)
                THEN /\ rLog' = Append(rLog, "WARN different repository")
                     /\ rPc' = "exited" /\ rExit' = 0
                     /\ UNCHANGED <<rCalls, rEffects>>
                ELSE /\ rCalls' = Append(rCalls, "delete")
                     /\ IF "delete" \in fails
                          THEN /\ rLog' = Append(rLog, "ERROR delete")
                               /\ rPc' = "exited" /\ rExit' = 1
                               /\ UNCHANGED rEffects
                          ELSE /\ rEffects' = rEffects \cup {"refDeleted"}
                               /\ rLog' = Append(rLog, "INFO deleted")
                               /\ rPc' = "exited" /\ rExit' = 0
    /\ UNCHANGED <<rPr, inputs, gvars, lvars>>

\* ------------------------------------------------------------ list-pr

\* What the remote search can return as one result node.  The search type is
\* ISSUE, so a node is a pull request or a plain issue.
NodeSet ==
    { [typename |-> "PullRequest", Number |-> 1, Title |-> "one", State |-> "OPEN", URL |-> "u1"],
      [typename |-> "PullRequest", Number |-> 2, Title |-> "two", State |-> "MERGED", URL |-> "u2"],
      [typename |-> "Issue", Number |-> 3, Title |-> "three", State |-> "OPEN", URL |-> "u3"] }

PageSet == UNION { [1..n -> NodeSet] : n \in 0..MaxPageLen }
PagesSet == UNION { [1..n -> PageSet] : n \in 1..MaxPages }

\* Cap on the number of queries of one run: one more than any run needs.
MaxQueries == MaxPages + 1

\* The zero value of the PullRequest struct.
PullRequest == [Number |-> 0, Title |-> "", State |-> "", URL |-> ""]

\* The zero value of the response struct q.
ZeroQ == [Nodes |-> <<>>, EndCursor |-> 0, HasNextPage |-> FALSE]

\* One element of q.Search.Nodes as the query decodes it: the fields of the
\* inline fragment "... on PullRequest".  A node of another type matches no
\* fragment and arrives as an empty object, which leaves the zero value.
DecodeNode(n) ==
    IF n.typename = "PullRequest"
      THEN [Number |-> n.Number, Title |-> n.Title, State |-> n.State, URL |-> n.URL]
      ELSE PullRequest

\* The search connection: the page after the cursor, the cursor of its end,
\* and whether another page follows.  The cursor of page k is k.
Search(cursor) ==
    IF cursor + 1 <= Len(pages)
      THEN [Nodes |-> [i \in 1..Len(pages[cursor + 1]) |-> DecodeNode(pages[cursor + 1][i])],
            EndCursor |-> cursor + 1,
            HasNextPage |-> cursor + 1 < Len(pages)]
      ELSE [Nodes |-> <<>>, EndCursor |-> cursor, HasNextPage |-> FALSE]

AppendNodes_Prepend(res, nodes) == nodes \o res
\* for _, n := range q.Search.Nodes { result = append(result, n.PullRequest) }
AppendNodes(res, nodes) == res \o nodes

NextCursor_Nil(resp) == 0
\* variables["resultCursor"] = githubv4.NewString(q.Search.PageInfo.EndCursor)
NextCursor(resp) == resp.EndCursor

ListQuery_Retry ==
    /\ tool = "list"
    /\ lPc = "query"
    /\ Len(lQueries) < MaxQueries
    /\ \E ok \in BOOLEAN :
         /\ lQueries' = Append(lQueries, [cursor |-> resultCursor, ok |-> ok])
         /\ IF ~ok
              THEN UNCHANGED <<lPc, lExit, q, result, resultCursor, lFetched>>
              ELSE /\ q' = Search(resultCursor)
                   /\ lFetched' = Append(lFetched, q')
                   /\ result' = AppendNodes(result, q'.Nodes)
                   /\ IF ~q'.HasNextPage
                        THEN /\ lPc' = "marshal"
                             /\ UNCHANGED resultCursor
                        ELSE /\ resultCursor' = NextCursor(q')
                             /\ UNCHANGED lPc
                   /\ UNCHANGED lExit
    /\ UNCHANGED <<output, inputs, gvars, rvars>>
\* main, one iteration of the pagination loop
ListQuery ==
    /\ tool = "list"
    /\ lPc = "query"
    /\ Len(lQueries) < MaxQueries
    /\ \E ok \in BOOLEAN :
         /\ lQueries' = Append(lQueries, [cursor |-> resultCursor, ok |-> ok])
         /\ IF ~ok
              THEN /\ lPc' = "exited" /\ lExit' = 1
                   /\ UNCHANGED <<q, result, resultCursor, lFetched>>
              ELSE /\ q' = Search(resultCursor)
                   /\ lFetched' = Append(lFetched, q')
                   /\ result' = AppendNodes(result, q'.Nodes)
                   /\ IF ~q'.HasNextPage
                        THEN /\ lPc' = "marshal"
                             /\ UNCHANGED resultCursor
                        ELSE /\ resultCursor' = NextCursor(q')
                             /\ UNCHANGED lPc
                   /\ UNCHANGED lExit
    /\ UNCHANGED <<output, inputs, gvars, rvars>>

\* main, after the loop: marshal the list and print it
ListOutput ==
    /\ tool = "list"
    /\ lPc = "marshal"
    /\ output' = [printed |-> TRUE, list |-> result]
    /\ lPc' = "exited" /\ lExit' = 0
    /\ UNCHANGED <<resultCursor, q, result, lQueries, lFetched, inputs, gvars, rvars>>

\* ------------------------------------------------------- specification

CloseIdle ==
    /\ closeComment = "" /\ deleteBranch = FALSE /\ strict = FALSE
    /\ server = [state |-> "open", headRepo |-> "R1", baseRepo |-> "R1"]
    /\ fails = {}

Init ==
    /\ tool \in {"close", "list"}
    /\ IF tool = "close"
         THEN /\ closeComment \in {"", "wontfix"}
              /\ deleteBranch \in BOOLEAN
              /\ strict \in BOOLEAN
              /\ server \in [state : {"open", "closed", "merged"},
                             headRepo : {"R1", "R2"}, baseRepo : {"R1"}]
              /\ fails \in SUBSET Ops
              /\ pages = << <<>> >>
         ELSE /\ CloseIdle
              /\ pages \in PagesSet
    /\ gPc = "lookup" /\ gPr = NoPR /\ gCalls = <<>> /\ gEffects = {}
    /\ gLog = <<>> /\ gExit = 0
    /\ rPc = "lookup" /\ rPr = NoPR /\ rCalls = <<>> /\ rEffects = {}
    /\ rLog = <<>> /\ rExit = 0
    /\ lPc = "query" /\ resultCursor = 0 /\ q = ZeroQ /\ result = <<>>
    /\ lQueries = <<>> /\ lFetched = <<>>
    /\ output = [printed |-> FALSE, list |-> <<>>] /\ lExit = 0

Next ==
    \/ GqlLookup \/ GqlComment \/ GqlClose \/ GqlDelete
    \/ RestLookup \/ RestComment \/ RestClose \/ RestDelete
    \/ ListQuery \/ ListOutput

Spec == Init /\ [][Next]_vars

\* Each program is sequential and blocks only inside a remote call, which
\* returns with a response or an error: a step that can be taken is taken.
FairSpec == Spec /\ WF_vars(Next)

\* ------------------------------------------------------------ properties

Range(f) == { f[i] : i \in DOMAIN f }
Has(calls, op) == op \in Range(calls)
\* The effect a successful mutating call has on the remote.
EffectOf(op) ==
    CASE op = "comment" -> "commented"
      [] op = "close"   -> "closed"
      [] OTHER          -> "refDeleted"
\* What the remote must hold after the calls issued so far.
Applied(calls) == { EffectOf(op) : op \in (Range(calls) \cap Mutating) \ fails }
\* The calls of a run that is not cut short: lookup, comment if given, close.
UpToClose == IF closeComment # "" THEN <<"lookup", "comment", "close">>
                                  ELSE <<"lookup", "close">>
LookedUp(pc) == pc # "lookup" /\ "lookup" \notin fails
CommentOk == closeComment = "" \/ "comment" \notin fails

\* C1: GraphQL variant, looked-up PR not open: no mutating call is ever
\* issued and nothing changes on the remote; the run ends right after the
\* lookup, with status 0 and a warning when strict is off and with status 1
\* (and no warning) when strict is on, whatever close-comment and
\* delete-branch are.
C1_NotOpenNoMutation ==
    (tool = "close" /\ LookedUp(gPc) /\ server.state # "open") =>
        /\ gCalls = <<"lookup">>
        /\ gEffects = {}
        /\ gPc = "exited"
        /\ IF strict THEN gExit = 1 /\ gLog = <<"ERROR not open">>
                     ELSE gExit = 0 /\ gLog = <<"WARN not open">>
C1_Witness ==
    /\ tool = "close" /\ LookedUp(gPc) /\ server.state = "merged"
    /\ closeComment # "" /\ deleteBranch /\ ~strict /\ fails = {}
    /\ gPc = "exited" /\ gExit = 0

CommentThenClose(pc, calls) ==
    /\ closeComment = "" => ~Has(calls, "comment")
    /\ (closeComment # "" /\ Has(calls, "close")) =>
           \E i, j \in DOMAIN calls :
               i < j /\ calls[i] = "comment" /\ calls[j] = "close"
    /\ (Has(calls, "comment") /\ "comment" \in fails) =>
           /\ ~Has(calls, "close") /\ ~Has(calls, "delete")
           /\ pc = "exited"
\* C2: in both close-pr variants a non-empty close-comment is posted before
\* the close mutation; a failed comment call ends the run with neither the
\* close nor the ref deletion issued; an empty close-comment issues no
\* comment call.
C2_CommentBeforeClose ==
    tool = "close" => /\ CommentThenClose(gPc, gCalls)
                      /\ CommentThenClose(rPc, rCalls)
C2_Witness ==
    /\ tool = "close" /\ closeComment # "" /\ "comment" \in fails
    /\ deleteBranch
    /\ gPc = "exited" /\ gCalls = <<"lookup", "comment">>
    /\ rPc = "exited" /\ rCalls = <<"lookup", "comment">>

\* C3 as claimed: over all runs the delete-ref call is issued if and only if
\* delete-branch is requested and head and base repository are the same.
C3_AsClaimed ==
    (tool = "close" /\ gPc = "exited" /\ rPc = "exited") =>
        /\ Has(gCalls, "delete") <=> (deleteBranch /\ server.headRepo = server.baseRepo)
        /\ Has(rCalls, "delete") <=> (deleteBranch /\ server.headRepo = server.baseRepo)
ReachesDelete ==
    /\ "lookup" \notin fails /\ server.state = "open"
    /\ CommentOk /\ "close" \notin fails
\* C3: in both close-pr variants a finished run has issued the delete-ref
\* call if and only if delete-branch is requested, head and base repository
\* are the same, and the run got as far as the deletion step: the lookup
\* succeeded, the PR was open, the comment call (if any) and the close call
\* succeeded.
C3_DeleteIff ==
    (tool = "close" /\ gPc = "exited" /\ rPc = "exited") =>
        /\ Has(gCalls, "delete") <=>
             (deleteBranch /\ server.headRepo = server.baseRepo /\ ReachesDelete)
        /\ Has(rCalls, "delete") <=>
             (deleteBranch /\ server.headRepo = server.baseRepo /\ ReachesDelete)
C3_Witness ==
    /\ tool = "close" /\ gPc = "exited" /\ rPc = "exited"
    /\ deleteBranch /\ server.headRepo = server.baseRepo /\ ReachesDelete
    /\ Has(gCalls, "delete") /\ Has(rCalls, "delete")

RECURSIVE Flat(_)
\* The concatenation of a sequence of sequences.
Flat(ss) == IF ss = <<>> THEN <<>> ELSE Head(ss) \o Flat(Tail(ss))
RECURSIVE SumLen(_)
SumLen(ss) == IF ss = <<>> THEN 0 ELSE Len(Head(ss)) + SumLen(Tail(ss))
Decoded(nodes) == [i \in 1..Len(nodes) |-> DecodeNode(nodes[i])]
FetchedNodes == [i \in 1..Len(lFetched) |-> lFetched[i].Nodes]
AllOk == \A i \in DOMAIN lQueries : lQueries[i].ok

\* C4: the accumulated list is at every moment the concatenation, in arrival
\* order, of the node lists of the pages received so far, and its length is
\* the sum of their sizes; the list written out is that list, and it is the
\* whole remote result, node for node (each as the query decodes it), so
\* nothing is dropped, duplicated or reordered.
C4_Concatenation ==
    tool = "list" =>
        /\ result = Flat(FetchedNodes)
        /\ Len(result) = SumLen(FetchedNodes)
        /\ output.printed =>
             /\ output.list = result
             /\ output.list = Decoded(Flat(pages))
             /\ Len(output.list) = SumLen(pages)
C4_Witness ==
    /\ tool = "list" /\ output.printed
    /\ Len(pages) = 2 /\ Len(pages[1]) = 2 /\ Len(pages[2]) = 1
    /\ pages[1][1] # pages[1][2] /\ pages[2][1] # pages[1][1]
    /\ Len(output.list) = 3

FirstFailureEnds(pc, exit, calls) ==
    /\ \A i \in DOMAIN calls :
         calls[i] \in fails => i = Len(calls) /\ pc = "exited" /\ exit = 1
    /\ \A i, j \in DOMAIN calls : i # j => calls[i] # calls[j]
\* C5: in each tool the first failing remote call is the last call of the
\* run and the run ends with status 1; no call is issued twice by the close
\* workflow; a failed page query of the listing leaves nothing printed.
C5_FirstFailureFatal ==
    /\ tool = "close" => /\ FirstFailureEnds(gPc, gExit, gCalls)
                         /\ FirstFailureEnds(rPc, rExit, rCalls)
    /\ tool = "list" =>
         /\ \A i \in DOMAIN lQueries :
              ~lQueries[i].ok =>
                  /\ i = Len(lQueries) /\ lPc = "exited" /\ lExit = 1
                  /\ ~output.printed
         /\ Len(lQueries) = Len(lFetched) + (IF AllOk THEN 0 ELSE 1)
C5_Witness ==
    /\ tool = "list" /\ Len(lFetched) = 1 /\ Len(result) > 0
    /\ Len(lQueries) = 2 /\ ~lQueries[2].ok
    /\ lPc = "exited" /\ lExit = 1 /\ ~output.printed

ForkCase ==
    /\ tool = "close" /\ server.state = "open" /\ deleteBranch
    /\ server.headRepo # server.baseRepo
    /\ "lookup" \notin fails /\ CommentOk /\ "close" \notin fails
ForkSkipped(pc, exit, calls, effects, log) ==
    /\ ~Has(calls, "delete") /\ "refDeleted" \notin effects
    /\ pc = "exited" =>
         /\ calls = UpToClose
         /\ "closed" \in effects
         /\ log = <<"INFO closed", "WARN different repository">>
         /\ exit = 0
\* C6: open PR, delete-branch requested, head and base repository different,
\* comment (if any) and close succeeding: in both variants the run issues
\* the close, which takes effect, never issues the delete-ref call, logs the
\* warning and ends with status 0.
C6_ForkSkipsDelete ==
    ForkCase => /\ ForkSkipped(gPc, gExit, gCalls, gEffects, gLog)
                /\ ForkSkipped(rPc, rExit, rCalls, rEffects, rLog)
C6_Witness ==
    /\ ForkCase /\ closeComment # "" /\ "delete" \in fails
    /\ gPc = "exited" /\ rPc = "exited" /\ gExit = 0 /\ rExit = 0

C7_Cursors ==
    tool = "list" =>
        /\ \A i \in DOMAIN lQueries :
             IF i = 1 THEN lQueries[i].cursor = 0
             ELSE /\ i - 1 \in DOMAIN lFetched
                  /\ lQueries[i].cursor = lFetched[i - 1].EndCursor
        /\ \A i \in DOMAIN lFetched :
             ~lFetched[i].HasNextPage =>
                 /\ i = Len(lFetched) /\ Len(lQueries) = i
                 /\ lPc \in {"marshal", "exited"}
\* C7: the first query carries the nil cursor and every later one the end
\* cursor of the page before it; no query follows a page whose has-more flag
\* is false; and the listing of a finite remote result eventually exits,
\* having printed its output if every query succeeded.
C7_Pagination ==
    /\ []C7_Cursors
    /\ (tool = "list") => <>(lPc = "exited" /\ (AllOk => output.printed))
C7_Witness ==
    /\ tool = "list" /\ Len(pages) = 2 /\ lPc = "exited" /\ output.printed
    /\ Len(lQueries) = 2 /\ lQueries[1].cursor = 0 /\ lQueries[2].cursor = 1

IsPullRequest(n) == n.typename = "PullRequest"
\* C8 as claimed: the printed list holds exactly one entry per pull-request
\* node of the remote result, and none for a node of another type.
C8_OnlyPullRequests ==
    (tool = "list" /\ output.printed) =>
        output.list = Decoded(SelectSeq(Flat(pages), IsPullRequest))

\* The terminal outcomes of the GraphQL close workflow, told apart by what a
\* finished run has called, changed on the remote, logged and returned.
Skipped ==
    /\ ~GqlIsOpen(gPr) /\ gCalls = <<"lookup">> /\ gEffects = {}
    /\ gLog = <<"WARN not open">> /\ gExit = 0
FailedNotOpen ==
    /\ ~GqlIsOpen(gPr) /\ gCalls = <<"lookup">> /\ gEffects = {}
    /\ gLog = <<"ERROR not open">> /\ gExit = 1
FailedComment ==
    /\ gCalls = <<"lookup", "comment">> /\ gEffects = {} /\ gExit = 1
FailedClose ==
    /\ gCalls = UpToClose /\ "closed" \notin gEffects /\ gExit = 1
Closed ==
    /\ gCalls = UpToClose /\ "closed" \in gEffects /\ gExit = 0
    /\ ~deleteBranch
BranchSkipped ==
    /\ gCalls = UpToClose /\ "closed" \in gEffects /\ gExit = 0
    /\ deleteBranch /\ gLog = <<"INFO closed", "WARN different repository">>
BranchDeleted ==
    /\ gCalls = Append(UpToClose, "delete") /\ gExit = 0
    /\ {"closed", "refDeleted"} \subseteq gEffects
FailedDelete ==
    /\ gCalls = Append(UpToClose, "delete") /\ gExit = 1
    /\ "closed" \in gEffects /\ "refDeleted" \notin gEffects
Count(b) == IF b THEN 1 ELSE 0
SevenOutcomes ==
    Count(Skipped) + Count(FailedComment) + Count(FailedClose) + Count(Closed)
        + Count(BranchSkipped) + Count(BranchDeleted) + Count(FailedDelete)
Rank(op) ==
    CASE op = "lookup" -> 1 [] op = "comment" -> 2 [] op = "close" -> 3 [] OTHER -> 4
InOrder(calls) ==
    \A i, j \in DOMAIN calls : i < j => Rank(calls[i]) < Rank(calls[j])
\* Steps in order, and every mutation that succeeded still in place.
OrderedAndKept == InOrder(gCalls) /\ gEffects = Applied(gCalls)

\* C9 as claimed: a finished run that got past the lookup is in exactly one
\* of the seven listed outcomes.
C9_AsClaimed ==
    (tool = "close" /\ gPc = "exited" /\ LookedUp(gPc)) =>
        SevenOutcomes = 1 /\ OrderedAndKept
\* C9: a finished GraphQL run that got past the lookup is in exactly one of
\* eight outcomes: the seven listed ones, where SKIPPED is the not-open PR
\* with strict off, or FAILED at the not-open check with strict on.  At
\* every moment the calls issued are in the order lookup, comment, close,
\* delete, and the remote holds the effect of every mutation that succeeded.
C9_Outcomes ==
    tool = "close" =>
        /\ OrderedAndKept
        /\ (gPc = "exited" /\ LookedUp(gPc)) =>
               SevenOutcomes + Count(FailedNotOpen) = 1
C9_Witness ==
    /\ tool = "close" /\ gPc = "exited" /\ FailedDelete
    /\ closeComment # "" /\ gEffects = {"commented", "closed"}

\* C10: with strict on, the two variants issue the same calls in the same
\* order, leave the same effects on the remote and end with the same status;
\* the REST variant ends a looked-up PR that is not open with status 1 and
\* no mutating call, whatever strict is.
C10_RestIsStrictGraphQL ==
    tool = "close" =>
        /\ (strict /\ gPc = rPc) =>
               gCalls = rCalls /\ gEffects = rEffects /\ gExit = rExit
        /\ (strict /\ Len(gCalls) <= Len(rCalls)) =>
               gCalls = SubSeq(rCalls, 1, Len(gCalls))
        /\ (LookedUp(rPc) /\ server.state # "open") =>
               rPc = "exited" /\ rExit = 1 /\ rCalls = <<"lookup">> /\ rEffects = {}
C10_Witness ==
    /\ tool = "close" /\ strict /\ server.state = "merged" /\ fails = {}
    /\ closeComment # "" /\ deleteBranch
    /\ gPc = "exited" /\ rPc = "exited" /\ gExit = 1 /\ rExit = 1

=============================================================================
